---- MODULE Spec2Model ----
(***************************************************************************)
(* Model of the lead-sourcing screen, src/app/(tabs)/lead-sourcing.tsx.    *)
(*                                                                         *)
(* The operations are the screen's handlers (handleSearch, handleSyncLead, *)
(* handleSyncAllLeads and the onPress callback of the "Sync All" prompt),  *)
(* the completions of the asynchronous calls they await, and the store     *)
(* operations the screen wires to its buttons (clearLeads, clearError).    *)
(* The two stores (useLeadSourcingStore, useHubSpotStore) are not part of  *)
(* the source at hand; what they do to the lead collection, the error and  *)
(* the sync flags is modelled after the specification.                     *)
(*                                                                         *)
(* JavaScript runs each handler to its next await without interruption,    *)
(* and the continuation of an await runs as a microtask before any other   *)
(* user event or network completion.  One action is therefore one handler  *)
(* up to its await, or one completion together with everything that runs   *)
(* after it up to the next await (for a bulk sync: the alert, the finally  *)
(* block, the loop step and the start of the next lead's call).            *)
(* Functional state updates (setSyncingLeads(prev => ...)) are applied in  *)
(* the order they are issued, each to the result of the previous one.      *)
(***************************************************************************)
EXTENDS Integers, Sequences, FiniteSets, Bags, TLC

\* Bounds of the model.
NumLeads == 2
MaxBatches == 1
MaxSingles == 1
MaxSearches == 1

LeadIds == 1..NumLeads

\* Outcomes of one CRM write: resolved true, resolved false, rejected.
Outcomes == {"ok", "fail", "throw"}

\* The texts of the search box (searchQuery), as sequences of characters.
\* The box is edited freely between two presses of the search button, so
\* the text is an input of handleSearch.
Queries == {<<>>, <<" ">>, <<" ", "a">>}

RECURSIVE trimStart(_)
trimStart(s) ==
  IF s # <<>> /\ Head(s) = " " THEN trimStart(Tail(s)) ELSE s

RECURSIVE trimEnd(_)
trimEnd(s) ==
  IF s # <<>> /\ s[Len(s)] = " " THEN trimEnd(SubSeq(s, 1, Len(s) - 1)) ELSE s

\* String.prototype.trim
trim(s) == trimEnd(trimStart(s))

\* Mutant: the query is tested without trimming.
isBlankNoTrim(q) == q = <<>>

\* !searchQuery.trim()
isBlank(q) == trim(q) = <<>>

RECURSIVE Ascending(_, _)
Ascending(a, b) == IF a > b THEN <<>> ELSE <<a>> \o Ascending(a + 1, b)

RECURSIVE Descending(_, _)
Descending(a, b) == IF a < b THEN <<>> ELSE <<a>> \o Descending(a - 1, b)

\* The identifier sequences a discovery call may return: nothing, or the
\* catalogue of leads in one of two orders (identifiers are unique).
DiscoverResults ==
  {<<>>, Ascending(1, NumLeads), Descending(NumLeads, 1)}

\* A lead as the discovery source delivers it.
NewLead(i) == [id |-> i, syncedToHubSpot |-> FALSE]

VARIABLES
  leads,          \* useLeadSourcingStore().leads
  error,          \* useLeadSourcingStore().error
  isConfigured,   \* useHubSpotStore().syncStatus.isConfigured
  syncingLeads,   \* useState: the Sync Attempt Set
  discoveries,    \* bag of queries whose searchLeads call is outstanding
  calls,          \* bag of outstanding syncLeadToHubSpot calls
  batches,        \* the bulk syncs requested so far, in order of request
  alert           \* the Alert.alert raised by the last step, and the handler raising it

vars ==
  <<leads, error, isConfigured, syncingLeads, discoveries, calls, batches,
    alert>>

\* ----------------------------------------------------------------------
\* Helpers

\* An outstanding CRM write: who made it (0: a single sync, b: bulk sync b
\* at position pos), for which lead, and, for a single sync, whether the
\* collection has been replaced (a search result, a clear) since it was
\* made; for the write of a bulk sync the bulk sync records that.
Call(src, pos, id) == [src |-> src, pos |-> pos, id |-> id, stale |-> FALSE]

Stale(c) == [c EXCEPT !.stale = TRUE]

\* The outstanding calls after a replacement of the collection.
Staled(cs) ==
  LET mark(c) == IF c.src = 0 THEN Stale(c) ELSE c
  IN [d \in {mark(c) : c \in BagToSet(cs)} |->
        IF d.src = 0
        THEN CopiesIn(d, cs) + CopiesIn([d EXCEPT !.stale = FALSE], cs)
        ELSE CopiesIn(d, cs)]

\* A call made by a press on one lead's card (not by a bulk sync).
SingleCall(id) == Call(0, 0, id)

Alert(by, kind) == [by |-> by, kind |-> kind]

\* The last step raised no alert.
NoAlert == Alert("none", "none")

Ids(ls) == {ls[p].id : p \in DOMAIN ls}

IdSeq(ls) == [p \in DOMAIN ls |-> ls[p].id]

\* Number of outstanding CRM writes for one lead identifier.
Outstanding(i) ==
  BagCardinality([c \in {x \in BagToSet(calls) : x.id = i} |-> calls[c]])

\* Number of outstanding CRM writes started by single syncs.
SinglesOutstanding ==
  BagCardinality([c \in {x \in BagToSet(calls) : x.src = 0} |-> calls[c]])

\* Outstanding CRM writes started by bulk sync b.
CallsOf(cs, b) == {c \in BagToSet(cs) : c.src = b}

RECURSIVE SeqOfSet(_)
SeqOfSet(S) ==
  IF S = {} THEN <<>>
  ELSE LET m == CHOOSE x \in S : \A y \in S : x <= y
       IN <<m>> \o SeqOfSet(S \ {m})

\* ----------------------------------------------------------------------
\* Lead store and CRM gateway (useLeadSourcingStore, useHubSpotStore)

\* Mutant: the leads found are added to the ones already there.
appendLeads(prior, r) == prior \o [p \in DOMAIN r |-> NewLead(r[p])]

\* search, on success: the leads found replace the collection.
replaceLeads(prior, r) == [p \in DOMAIN r |-> NewLead(r[p])]

\* Mutant: a lead that is no longer in the collection is put back, synced.
upsertSynced(ls, leadId) ==
  IF leadId \in {ls[p].id : p \in DOMAIN ls}
  THEN [p \in DOMAIN ls |->
          IF ls[p].id = leadId THEN [ls[p] EXCEPT !.syncedToHubSpot = TRUE]
          ELSE ls[p]]
  ELSE Append(ls, [id |-> leadId, syncedToHubSpot |-> TRUE])

\* setSynced: flag the lead with that id if it is in the collection.
setSynced(ls, leadId) ==
  [p \in DOMAIN ls |->
     IF ls[p].id = leadId THEN [ls[p] EXCEPT !.syncedToHubSpot = TRUE]
     ELSE ls[p]]

\* Mutant: the flag is overwritten with the outcome of the last attempt.
flagFollowsOutcome(ls, leadId, outcome) ==
  [p \in DOMAIN ls |->
     IF ls[p].id = leadId
     THEN [ls[p] EXCEPT !.syncedToHubSpot = (outcome = "ok")]
     ELSE ls[p]]

\* The lead collection after one finished syncLeadToHubSpot(leadId).
syncLeadToHubSpot(ls, leadId, outcome) ==
  IF outcome = "ok" THEN setSynced(ls, leadId) ELSE ls

\* ----------------------------------------------------------------------
\* handleSyncLead, piece by piece

\* Mutant: the configuration check is missing.
alwaysAttempt(cfg) == TRUE

\* if (!hubspotStatus.isConfigured) { alert; return }
mayAttempt(cfg) == cfg

\* Mutant: the set is rebuilt from a value read before the other updates
\* (setSyncingLeads(new Set().add(leadId))): the other entries are lost.
addSyncingLosing(prev, leadId) == {leadId}

\* setSyncingLeads(prev => new Set(prev).add(leadId))
addSyncing(prev, leadId) == prev \cup {leadId}

RECURSIVE addAll(_, _)
\* addSyncing for each of the calls started, in order.
addAll(prev, ids) ==
  IF ids = <<>> THEN prev ELSE addAll(addSyncing(prev, Head(ids)), Tail(ids))

\* Mutant: the removal sits at the end of the try block, not in finally.
removeUnlessThrown(prev, leadId, outcome) ==
  IF outcome = "throw" THEN prev ELSE prev \ {leadId}

\* finally { setSyncingLeads(prev => { ...; newSet.delete(leadId) }) }
removeSyncing(prev, leadId, outcome) == prev \ {leadId}

\* Mutant: the catch block also records the failure as the store's error.
errorSetOnThrow(err, outcome) ==
  IF outcome = "throw" THEN "SearchError" ELSE err

\* The store's last-search error after handleSyncLead has run to its end:
\* neither branch of the try, nor the catch, nor the finally touches it.
errorAfterSync(err, outcome) == err

\* Mutant: a failure is announced as a success.
noticeAlwaysSuccess(outcome) == "Success"

\* The alert raised when the awaited call settles: 'Lead synced ...',
\* 'Failed to sync lead ...' or 'Sync failed: <message>'.
noticeFor(outcome) ==
  IF outcome = "ok" THEN "Success"
  ELSE IF outcome = "fail" THEN "Failed" ELSE "Threw"

\* ----------------------------------------------------------------------
\* handleSyncAllLeads, piece by piece

\* Mutant: the empty collection is not rejected.
rejectedUnlessConfigured(cfg, n) == ~cfg

\* The two early returns of handleSyncAllLeads.
bulkRejected(cfg, n) == ~cfg \/ n = 0

\* Mutant: every lead's sync is started at once (no await in the loop).
allPositions(snap) == DOMAIN snap

\* The positions whose sync starts when "Sync All" is pressed.
firstPositions(snap) == IF Len(snap) > 0 THEN {1} ELSE {}

\* The positions whose sync starts when the attempt at position k returns.
nextPositions(snap, k) == IF k < Len(snap) THEN {k + 1} ELSE {}

\* Mutant: the Cancel button carries the same onPress as "Sync All".
cancelStartsLoop(snap) == IF Len(snap) > 0 THEN {1} ELSE {}

\* The positions whose sync starts when "Cancel" is pressed: the button
\* has no onPress.
cancelPositions(snap) == {}

\* Mutant: every attempt is made for the first lead of the batch.
firstLeadId(snap, k) == snap[1]

\* handleSyncLead(lead.id) for the k-th lead of the captured collection.
batchLeadId(snap, k) == snap[k]

\* Mutant: an exception leaves the loop.
continuesUnlessThrown(outcome) == outcome # "throw"

\* handleSyncLead catches everything, so the loop goes on after any outcome.
loopContinues(outcome) == TRUE

\* What the onPress callback of "Sync All" resolves to, as the set of the
\* reports it returns: the callback returns nothing.
onPressResult(B) == {}

\* A bulk sync, from the press on "Sync All" on.  snap and cfg are what the
\* closures of that render captured (leads, hubspotStatus.isConfigured);
\* attempts, okLog and notices record the calls it made, whether each
\* succeeded and the alert raised for each; replacedAt is, until
\* the bulk sync ends, the number of attempts the loop had started when the
\* collection was last replaced under it (-1: it has not been, or the bulk
\* sync has ended); pure tells that the
\* collection is still the captured one, was all unsynced when the loop
\* started, and that no other sync has succeeded since.
NewBatch(ls, cfg) ==
  [st |-> "prompt", snap |-> IdSeq(ls), cfg |-> cfg,
   attempts |-> <<>>, okLog |-> <<>>, notices |-> <<>>,
   pure |-> TRUE, replacedAt |-> -1, report |-> {}]

\* The calls bulk sync b starts for the positions P of its snapshot.
BatchCalls(b, B, P) == {Call(b, p, batchLeadId(B.snap, p)) : p \in P}

\* The identifiers of the calls a bulk sync starts, in loop order.
StartedIds(B, new) ==
  LET order == SeqOfSet({c.pos : c \in new})
  IN [k \in DOMAIN order |-> batchLeadId(B.snap, order[k])]

\* Bulk sync b after starting the positions P (in ascending order), with
\* callsLeft its calls still outstanding from before.
Advance(B, P, callsLeft) ==
  LET started == IF mayAttempt(B.cfg) THEN P ELSE {}
      order == SeqOfSet(started)
      ended == started = {} /\ callsLeft = {}
  IN [B EXCEPT
        !.attempts = @ \o [k \in DOMAIN order |-> batchLeadId(B.snap, order[k])],
        !.st = IF ended THEN "done" ELSE "running",
        !.replacedAt = IF ended THEN -1 ELSE @,
        !.report = IF ended THEN onPressResult(B) ELSE @]

\* ----------------------------------------------------------------------
\* Initial state

Init ==
  /\ leads = <<>>
  /\ error = "null"
  /\ isConfigured = FALSE
  /\ syncingLeads = {}
  /\ discoveries = EmptyBag
  /\ calls = EmptyBag
  /\ batches = <<>>
  /\ alert = NoAlert

\* ----------------------------------------------------------------------
\* Actions

\* The gateway is configured or unconfigured elsewhere (Settings).
setConfigured(c) ==
  /\ isConfigured' = c
  /\ alert' = NoAlert
  /\ UNCHANGED <<leads, error, syncingLeads, discoveries, calls, batches>>

handleSearch(searchQuery) ==
  /\ IF isBlank(searchQuery)
     THEN /\ alert' = Alert("handleSearch", "BlankQuery")
          /\ UNCHANGED discoveries
     ELSE /\ BagCardinality(discoveries) < MaxSearches
          /\ discoveries' = discoveries (+) SetToBag({searchQuery})
          /\ alert' = NoAlert
  /\ UNCHANGED <<leads, error, isConfigured, syncingLeads, calls, batches>>

\* Every bulk sync learns that the collection it captured was replaced.
Disturbed(bs) ==
  [b \in DOMAIN bs |->
     [bs[b] EXCEPT !.pure = FALSE,
                   !.replacedAt =
                     IF bs[b].st \in {"prompt", "running"}
                     THEN Len(bs[b].attempts) ELSE @]]

\* searchLeads(query) settles with the leads found.
searchSucceeds(q, r) ==
  /\ BagIn(q, discoveries)
  /\ discoveries' = discoveries (-) SetToBag({q})
  /\ leads' = replaceLeads(leads, r)
  /\ error' = "null"
  /\ batches' = Disturbed(batches)
  /\ calls' = Staled(calls)
  /\ alert' = NoAlert
  /\ UNCHANGED <<isConfigured, syncingLeads>>

\* searchLeads(query) settles with an error.
searchFails(q) ==
  /\ BagIn(q, discoveries)
  /\ discoveries' = discoveries (-) SetToBag({q})
  /\ error' = "SearchError"
  /\ alert' = NoAlert
  /\ UNCHANGED <<leads, isConfigured, syncingLeads, calls, batches>>

clearLeads ==
  /\ leads' = <<>>
  /\ error' = "null"
  /\ batches' = Disturbed(batches)
  /\ calls' = Staled(calls)
  /\ alert' = NoAlert
  /\ UNCHANGED <<isConfigured, syncingLeads, discoveries>>

clearError ==
  /\ error' = "null"
  /\ alert' = NoAlert
  /\ UNCHANGED <<leads, isConfigured, syncingLeads, discoveries, calls,
                 batches>>

\* onSync={() => handleSyncLead(lead.id)} of a rendered lead.
handleSyncLead(leadId) ==
  /\ leadId \in Ids(leads)
  /\ IF ~mayAttempt(isConfigured)
     THEN /\ alert' = Alert("handleSyncLead", "NotConfigured")
          /\ UNCHANGED <<syncingLeads, calls>>
     ELSE /\ SinglesOutstanding < MaxSingles
          /\ syncingLeads' = addSyncing(syncingLeads, leadId)
          /\ calls' = calls (+) SetToBag({SingleCall(leadId)})
          /\ alert' = NoAlert
  /\ UNCHANGED <<leads, error, isConfigured, discoveries, batches>>

handleSyncAllLeads ==
  /\ IF bulkRejected(isConfigured, Len(leads))
     THEN /\ alert' = Alert("handleSyncAllLeads",
                            IF ~isConfigured THEN "NotConfigured"
                            ELSE "NoLeads")
          /\ UNCHANGED batches
     ELSE /\ Len(batches) < MaxBatches
          /\ batches' = Append(batches, NewBatch(leads, isConfigured))
          /\ alert' = Alert("handleSyncAllLeads", "Confirm")
  /\ UNCHANGED <<leads, error, isConfigured, syncingLeads, discoveries,
                 calls>>

\* { text: 'Cancel', style: 'cancel' }
cancelSyncAll(b) ==
  /\ b \in DOMAIN batches
  /\ batches[b].st = "prompt"
  /\ LET B == batches[b]
         new == BatchCalls(b, B, cancelPositions(B.snap))
     IN /\ batches' = [batches EXCEPT ![b] =
                         IF new = {}
                         THEN [B EXCEPT !.st = "cancelled", !.replacedAt = -1]
                         ELSE Advance(B, cancelPositions(B.snap), {})]
        /\ calls' = calls (+) SetToBag(new)
        /\ syncingLeads' = addAll(syncingLeads, StartedIds(B, new))
  /\ alert' = NoAlert
  /\ UNCHANGED <<leads, error, isConfigured, discoveries>>

\* { text: 'Sync All', onPress }: the loop up to its first await.
confirmSyncAll(b) ==
  /\ b \in DOMAIN batches
  /\ batches[b].st = "prompt"
  /\ LET B == [batches[b] EXCEPT !.pure =
                 @ /\ \A p \in DOMAIN leads : ~leads[p].syncedToHubSpot]
         P == firstPositions(B.snap)
         new == IF mayAttempt(B.cfg) THEN BatchCalls(b, B, P) ELSE {}
     IN /\ batches' = [batches EXCEPT ![b] = Advance(B, P, {})]
        /\ calls' = calls (+) SetToBag(new)
        /\ syncingLeads' = addAll(syncingLeads, StartedIds(B, new))
        /\ alert' = IF mayAttempt(B.cfg) \/ P = {} THEN NoAlert
                    ELSE Alert("handleSyncLead", "NotConfigured")
  /\ UNCHANGED <<leads, error, isConfigured, discoveries>>

\* Every started bulk sync other than src sees a successful write.
Noted(bs, src, outcome) ==
  [b \in DOMAIN bs |->
     IF outcome = "ok" /\ b # src /\ bs[b].st \in {"running", "done"}
     THEN [bs[b] EXCEPT !.pure = FALSE]
     ELSE bs[b]]

\* An awaited syncLeadToHubSpot(leadId) settles; handleSyncLead runs to
\* its end, and the bulk sync that called it goes on to its next lead.
completeCall(c, outcome) ==
  /\ BagIn(c, calls)
  /\ leads' = syncLeadToHubSpot(leads, c.id, outcome)
  /\ LET calls1 == calls (-) SetToBag({c})
         syncing1 == removeSyncing(syncingLeads, c.id, outcome)
         bs1 == Noted(batches, c.src, outcome)
     IN IF c.src = 0
        THEN /\ calls' = calls1
             /\ syncingLeads' = syncing1
             /\ batches' = bs1
             /\ alert' = Alert("handleSyncLead", noticeFor(outcome))
        ELSE LET B1 == [bs1[c.src] EXCEPT
                          !.okLog = Append(@, outcome = "ok"),
                          !.notices = Append(@, noticeFor(outcome))]
                 P == IF loopContinues(outcome)
                      THEN nextPositions(B1.snap, c.pos) ELSE {}
                 new == IF mayAttempt(B1.cfg)
                        THEN BatchCalls(c.src, B1, P) ELSE {}
             IN /\ calls' = calls1 (+) SetToBag(new)
                /\ syncingLeads' = addAll(syncing1, StartedIds(B1, new))
                /\ batches' = [bs1 EXCEPT ![c.src] =
                                 Advance(B1, P, CallsOf(calls1, c.src))]
                /\ alert' = IF mayAttempt(B1.cfg) \/ P = {}
                            THEN Alert("handleSyncLead", noticeFor(outcome))
                            ELSE Alert("handleSyncLead", "NotConfigured")
  /\ error' = errorAfterSync(error, outcome)
  /\ UNCHANGED <<isConfigured, discoveries>>

Next ==
  \/ \E c \in BOOLEAN : setConfigured(c)
  \/ \E q \in Queries : handleSearch(q)
  \/ \E q \in Queries, r \in DiscoverResults : searchSucceeds(q, r)
  \/ \E q \in Queries : searchFails(q)
  \/ clearLeads
  \/ clearError
  \/ \E i \in LeadIds : handleSyncLead(i)
  \/ handleSyncAllLeads
  \/ \E b \in 1..MaxBatches : cancelSyncAll(b)
  \/ \E b \in 1..MaxBatches : confirmSyncAll(b)
  \/ \E c \in BagToSet(calls), o \in Outcomes : completeCall(c, o)

Spec == Init /\ [][Next]_vars

\* Every gateway call that is outstanding eventually settles.
FreshCalls ==
  {Call(b, p, i) : b \in 0..MaxBatches, p \in 0..NumLeads, i \in LeadIds}

CallUniverse == FreshCalls \cup {Stale(SingleCall(i)) : i \in LeadIds}

\* The collection was replaced while the write c was outstanding.
Overtaken(c) ==
  IF c.src = 0 THEN c.stale
  ELSE c.src \in DOMAIN batches /\ batches[c.src].replacedAt = c.pos

FairSpec ==
  Spec /\ \A c \in CallUniverse : WF_vars(\E o \in Outcomes : completeCall(c, o))

\* ----------------------------------------------------------------------
\* Properties

\* C1: at no time are two CRM writes outstanding for the same lead
\* identifier (a request for a lead already in the Sync Attempt Set is
\* rejected without calling the gateway).
AtMostOneWritePerLead == \A i \in LeadIds : Outstanding(i) <= 1

\* C2: every settled attempt removes its lead's identifier from the Sync
\* Attempt Set whatever the outcome; when no call is outstanding the set is
\* empty; and, every call settling eventually, every identifier in the set
\* is eventually out of it.
SyncAttemptSetDrains ==
  /\ [](calls = EmptyBag => syncingLeads = {})
  /\ [][\A c \in CallUniverse, o \in Outcomes :
          completeCall(c, o) => c.id \notin syncingLeads']_vars
  /\ \A i \in LeadIds : (i \in syncingLeads) ~> (i \notin syncingLeads)

\* A call has thrown and the Sync Attempt Set has been emptied.
ThrownAttemptRemoved ==
  /\ alert = Alert("handleSyncLead", "Threw")
  /\ calls = EmptyBag
  /\ syncingLeads = {}

\* C3: a bulk sync attempts the leads of its batch in input order, each
\* once, and goes on after a failed attempt until all have been attempted.
BulkAttemptsAllInOrder ==
  \A b \in DOMAIN batches :
    LET B == batches[b]
    IN /\ Len(B.attempts) <= Len(B.snap)
       /\ B.attempts = SubSeq(B.snap, 1, Len(B.attempts))
       /\ B.st = "done" => B.attempts = B.snap
       /\ B.st = "running" => CallsOf(calls, b) # {}

\* A bulk sync has ended whose first attempt failed.
BulkEndedAfterFailure ==
  \E b \in DOMAIN batches :
    /\ batches[b].st = "done"
    /\ Len(batches[b].snap) >= 2
    /\ Len(batches[b].okLog) >= 2
    /\ ~batches[b].okLog[1]

\* C4: one bulk sync has at most one gateway call outstanding, and it starts
\* the call for its next lead only when every earlier attempt has settled
\* and the previous lead's identifier is out of the Sync Attempt Set.
BulkStrictlySequential ==
  /\ [](\A b \in DOMAIN batches :
          /\ Cardinality(CallsOf(calls, b)) <= 1
          /\ \A c \in CallsOf(calls, b) : CopiesIn(c, calls) = 1)
  /\ [][\A b \in DOMAIN batches :
          LET n == Len(batches[b].attempts)
          IN (n >= 1 /\ Len(batches'[b].attempts) > n) =>
               /\ Len(batches'[b].okLog) = n
               /\ batches[b].attempts[n] \notin syncingLeads'
               /\ \A c \in CallsOf(calls', b) : c.pos = n + 1]_vars

\* A bulk sync is waiting for the call of its second lead.
BulkAtSecondLead ==
  \E b \in DOMAIN batches :
    /\ batches[b].st = "running"
    /\ Len(batches[b].attempts) = 2
    /\ \E c \in CallsOf(calls, b) : c.pos = 2

\* C5: when a bulk sync has ended that started on a collection of unsynced
\* leads, with no search or clear and no other successful sync since, the
\* leads whose call succeeded are flagged and those whose call failed are
\* not.
BulkFlagsFollowOutcomes ==
  \A b \in DOMAIN batches :
    LET B == batches[b]
    IN (B.st = "done" /\ B.pure) =>
         /\ Len(B.okLog) = Len(B.snap)
         /\ \A k \in DOMAIN B.snap :
              \E p \in DOMAIN leads :
                /\ leads[p].id = B.snap[k]
                /\ leads[p].syncedToHubSpot = B.okLog[k]

\* A bulk sync over two leads has ended, failed on the first lead only.
BulkPartlyFailed ==
  \E b \in DOMAIN batches :
    /\ batches[b].st = "done"
    /\ batches[b].pure
    /\ batches[b].okLog = <<FALSE, TRUE>>

RECURSIVE FailedIds(_, _)
FailedIds(ids, ok) ==
  IF ids = <<>> \/ ok = <<>> THEN <<>>
  ELSE (IF Head(ok) THEN <<>> ELSE <<Head(ids)>>)
         \o FailedIds(Tail(ids), Tail(ok))

\* The report the claim expects of a bulk sync.
ExpectedReport(B) ==
  [attempted |-> Len(B.snap),
   succeeded |-> Len(B.snap) - Len(FailedIds(B.snap, B.okLog)),
   failed |-> Len(FailedIds(B.snap, B.okLog)),
   failures |-> FailedIds(B.snap, B.okLog)]

UnconfiguredSyncRejected ==
  [][\A i \in LeadIds :
       (~isConfigured /\ handleSyncLead(i)) =>
         /\ alert' = Alert("handleSyncLead", "NotConfigured")
         /\ UNCHANGED <<calls, syncingLeads, leads, batches>>]_vars

\* A single sync has just been rejected for want of configuration.
SyncJustRejected ==
  /\ ~isConfigured
  /\ leads # <<>>
  /\ alert = Alert("handleSyncLead", "NotConfigured")

\* C8: a bulk sync requested while the gateway is not configured or the
\* collection is empty offers no confirmation, calls no gateway and leaves
\* the Sync Attempt Set and the lead collection unchanged.
BulkSyncFailsFast ==
  [][((~isConfigured \/ Len(leads) = 0) /\ handleSyncAllLeads) =>
       /\ alert'.by = "handleSyncAllLeads"
       /\ alert'.kind \in {"NotConfigured", "NoLeads"}
       /\ UNCHANGED <<batches, calls, syncingLeads, leads>>]_vars

\* A bulk sync has just been refused on an empty collection.
BulkJustRefused ==
  /\ isConfigured
  /\ leads = <<>>
  /\ batches = <<>>
  /\ alert = Alert("handleSyncAllLeads", "NoLeads")

\* C9: a search with an empty or all-space query makes no discovery call
\* and leaves collection, error and Sync Attempt Set unchanged; a search
\* with any other query hands exactly that query to the store.
BlankSearchIgnored ==
  [][\A q \in Queries :
       handleSearch(q) =>
         IF \A k \in DOMAIN q : q[k] = " "
         THEN UNCHANGED <<discoveries, leads, error, syncingLeads>>
         ELSE /\ discoveries' = discoveries (+) SetToBag({q})
              /\ UNCHANGED <<leads, error, syncingLeads>>]_vars

\* A blank search has just been refused.
BlankJustRefused == alert = Alert("handleSearch", "BlankQuery")

\* C10: but for a replacement of the collection (a search result, a clear),
\* no step takes a lead's flag from true to false; a failed attempt on a
\* synced lead leaves its flag set.
FlagNeverReset ==
  [][\/ \E q \in Queries, r \in DiscoverResults : searchSucceeds(q, r)
     \/ clearLeads
     \/ /\ DOMAIN leads' = DOMAIN leads
        /\ \A p \in DOMAIN leads :
             /\ leads'[p].id = leads[p].id
             /\ leads[p].syncedToHubSpot => leads'[p].syncedToHubSpot]_vars

\* An attempt has just failed while every lead shown is synced.
FailedOnSyncedLead ==
  /\ alert = Alert("handleSyncLead", "Failed")
  /\ leads # <<>>
  /\ \A p \in DOMAIN leads : leads[p].syncedToHubSpot

SearchOutcomeApplied ==
  /\ [](\A q \in BagToSet(discoveries) : ~isBlank(q))
  /\ [][\A q \in Queries, r \in DiscoverResults :
          searchSucceeds(q, r) =>
            (~isBlank(q) /\ IdSeq(leads') = r /\ error' = "null")]_vars
  /\ [][\A q \in Queries :
          searchFails(q) =>
            (~isBlank(q) /\ leads' = leads /\ error' = "SearchError")]_vars

\* C12 witness: a search has failed over a collection that an earlier
\* search had filled: the leads are still there and the error is set.
SearchFailedOverLeads ==
  /\ error = "SearchError"
  /\ leads # <<>>
  /\ discoveries = EmptyBag

\* The steps of a single or a bulk sync.
SyncStep ==
  \/ \E i \in LeadIds : handleSyncLead(i)
  \/ handleSyncAllLeads
  \/ \E b \in DOMAIN batches : cancelSyncAll(b) \/ confirmSyncAll(b)
  \/ \E c \in CallUniverse, o \in Outcomes : completeCall(c, o)

\* C13, as stated: a last-search error that is set stays set until it is
\* dismissed (clearError) or a new search outcome overwrites it; no step of
\* a single or bulk sync changes the error; dismissing changes neither the
\* collection, nor a flag, nor the Sync Attempt Set.
ErrorOnlyDismissedOrOverwritten ==
  /\ [][(error = "SearchError" /\ error' # error) =>
          (clearError \/ \E q \in Queries, r \in DiscoverResults :
                           searchSucceeds(q, r))]_vars
  /\ [][SyncStep => error' = error]_vars
  /\ [][clearError => UNCHANGED <<leads, syncingLeads>>]_vars

\* C13, amended: a last-search error that is set stays set until it is
\* dismissed (clearError), a new search outcome overwrites it, or clear
\* empties the collection and the error with it; no step of a single or
\* bulk sync changes the error; dismissing changes neither the collection,
\* nor a flag, nor the Sync Attempt Set.
ErrorKeptUntilDismissedSearchedOrCleared ==
  /\ [][(error = "SearchError" /\ error' # error) =>
          (clearError \/ clearLeads
             \/ \E q \in Queries, r \in DiscoverResults :
                  searchSucceeds(q, r))]_vars
  /\ [][SyncStep => error' = error]_vars
  /\ [][clearError =>
          (error' = "null" /\ UNCHANGED <<leads, syncingLeads, calls>>)]_vars

\* C13 witness: a sync has just thrown while the last-search error is set
\* over a collection with a synced lead: the error is still there.
ErrorSurvivesThrownSync ==
  /\ error = "SearchError"
  /\ alert = Alert("handleSyncLead", "Threw")
  /\ \E p \in DOMAIN leads : leads[p].syncedToHubSpot

\* C14: no CRM write is started while the gateway is unconfigured: every
\* step that adds an outstanding write is taken with isConfigured true, the
\* steps of a bulk sync that began while it was configured included.
WritesOnlyWhileConfigured ==
  [][(\E c \in FreshCalls : CopiesIn(c, calls') > CopiesIn(c, calls)) =>
       isConfigured]_vars

\* C15: the Sync Attempt Set is exactly the set of identifiers that have a
\* CRM write outstanding.
SyncAttemptSetIsOutstanding ==
  syncingLeads = {i \in LeadIds : Outstanding(i) > 0}

\* The identifiers for which the step starts a CRM write.
StartedNow ==
  {c.id : c \in {d \in FreshCalls : CopiesIn(d, calls') > CopiesIn(d, calls)}}

\* C16: the Sync Attempt Set is updated by atomic read-modify-write: a step
\* adds exactly the identifiers whose write it starts and removes at most
\* the identifier of the write it completes; every other identifier that
\* was in the set stays in it and none other enters, whatever else is in
\* flight.
OnlyOwnIdTouched ==
  [][/\ StartedNow \subseteq syncingLeads'
     /\ \A j \in syncingLeads' \ syncingLeads : j \in StartedNow
     /\ \A j \in syncingLeads \ syncingLeads' :
          \E c \in CallUniverse, o \in Outcomes :
            c.id = j /\ completeCall(c, o)]_vars

\* C16 witness: a write has just completed (its alert is up) while a single
\* sync of another lead, started earlier, is still outstanding: that lead
\* is still in the Sync Attempt Set and nothing else is.
OtherSyncStillPending ==
  /\ alert.by = "handleSyncLead"
  /\ alert.kind \in {"Success", "Failed", "Threw"}
  /\ BagCardinality(calls) = 1
  /\ \A c \in BagToSet(calls) : c.src = 0 /\ syncingLeads = {c.id}

\* C17: a failed sync is retriable. When a write fails or throws, its lead
\* is idle again: out of the Sync Attempt Set, every flag as it was. A
\* request made while the gateway is configured is accepted whatever came
\* before: it enters the set and one more write reaches the gateway. A write
\* that succeeds sets the flag of its lead if the lead is in the collection.
FailedSyncRetriable ==
  /\ [][\A c \in CallUniverse, o \in Outcomes \ {"ok"} :
          completeCall(c, o) => (c.id \notin syncingLeads' /\ leads' = leads)]_vars
  /\ [][\A i \in LeadIds :
          (isConfigured /\ handleSyncLead(i)) =>
            /\ i \in syncingLeads'
            /\ CopiesIn(SingleCall(i), calls') =
                 CopiesIn(SingleCall(i), calls) + 1]_vars
  /\ [][\A c \in CallUniverse :
          completeCall(c, "ok") =>
            \A p \in DOMAIN leads :
              leads[p].id = c.id => leads'[p].syncedToHubSpot]_vars

\* C17 witness: the attempt a bulk sync made for a lead failed or threw, and
\* the lead, still unsynced, is in the Sync Attempt Set again with a single
\* sync's write outstanding: the retry was accepted after the failure (the
\* failed attempt's completion had removed the identifier).
RetryInFlight ==
  \E b \in DOMAIN batches : \E k \in DOMAIN batches[b].okLog :
    LET i == batches[b].snap[k]
    IN /\ ~batches[b].okLog[k]
       /\ i \in syncingLeads
       /\ Outstanding(i) = 1
       /\ CopiesIn(SingleCall(i), calls) = 1
       /\ \E p \in DOMAIN leads :
            leads[p].id = i /\ ~leads[p].syncedToHubSpot

\* C18: a bulk sync makes no gateway call and changes no state before the
\* user confirms. Pressing Sync All and pressing Cancel leave the Sync
\* Attempt Set, the outstanding writes, the collection and every flag as
\* they were; a bulk sync that waits at its prompt or was cancelled has
\* attempted nothing; the first write of a bulk sync starts in the step
\* that confirms it, and in no other.
BulkWaitsForConfirmation ==
  /\ [](\A b \in DOMAIN batches :
          batches[b].st \in {"prompt", "cancelled"} =>
            (batches[b].attempts = <<>> /\ CallsOf(calls, b) = {}))
  /\ [][handleSyncAllLeads => UNCHANGED <<leads, syncingLeads, calls>>]_vars
  /\ [][\A b \in DOMAIN batches :
          cancelSyncAll(b) => UNCHANGED <<leads, syncingLeads, calls>>]_vars
  /\ [][\A b \in DOMAIN batches :
          LET first == Call(b, 1, batches[b].snap[1])
          IN /\ confirmSyncAll(b) =>
                  (CopiesIn(first, calls) = 0 /\ CopiesIn(first, calls') = 1
                     /\ first.id \in syncingLeads')
             /\ CopiesIn(first, calls') > CopiesIn(first, calls) =>
                  confirmSyncAll(b)]_vars

\* C18 witness: a bulk sync was requested over a non-empty collection and
\* cancelled at its prompt: nothing is outstanding, nothing is in the Sync
\* Attempt Set, and no lead of the collection is flagged.
BulkCancelledUntouched ==
  /\ \E b \in DOMAIN batches :
       batches[b].st = "cancelled" /\ batches[b].snap = IdSeq(leads)
  /\ leads # <<>>
  /\ \A p \in DOMAIN leads : ~leads[p].syncedToHubSpot
  /\ calls = EmptyBag
  /\ syncingLeads = {}

================================================================================
